---- MODULE Spec2Model ----
(***************************************************************************)
(* A model of shm-simulation.js: the mass-spring simulator's parameter    *)
(* store, physics step, graph history and start/reset run loop, together  *)
(* with the part of the browser it talks to (the animation frame callback *)
(* list, the high resolution clock and the rendering task).               *)
(*                                                                         *)
(* Numbers.  JavaScript numbers are modelled in fixed point with three     *)
(* decimals: a length is in millimetres, a time in milliseconds, an angle  *)
(* in milliradians, a cosine in thousandths.  mass and springConstant are  *)
(* whole kilograms and newtons per metre.  The values that can be NaN or   *)
(* an infinity (angularFrequency, period, position, velocity) are records  *)
(* [kind, val]: kind is "finite" (val the value), "Infinity" (val the      *)
(* sign) or "NaN".                                                         *)
(***************************************************************************)
EXTENDS Integers, Sequences, FiniteSets

VARIABLES
    mass,               \* let mass
    springConstant,     \* let springConstant
    initialAmplitude,   \* let initialAmplitude (mm)
    angularFrequency,   \* let angularFrequency (mrad/s), a number record
    period,             \* let period (ms), a number record
    time,               \* let time (ms)
    position,           \* let position (mm), a number record
    velocity,           \* let velocity (mm/s), a number record
    animationFrameId,   \* let animationFrameId
    simulationActive,   \* let simulationActive
    graphHistory,       \* const graphHistory: sequence of [time, position]
    lastTime,           \* animationLoop.lastTime
    callbacks,          \* the browser's list of animation frame callbacks (handles)
    nextHandle,         \* the browser's animation frame callback identifier
    clock,              \* performance.now()
    frameTime,          \* the time of the last rendering opportunity
    renderQueued,       \* a rendering task is queued and has not run yet
    frameQueue,         \* callbacks the running rendering task still has to call
    lastOp,             \* history: the handler that ran last ("firstTick": the
                        \*   first animationLoop call after a startSimulation call)
    lastDelta,          \* history: deltaTime, when animationLoop ran last
    lastHandle,         \* history: the handle called, when animationLoop ran last
    lastRemoved         \* history: the samples the last handler took out of graphHistory

progVars == <<mass, springConstant, initialAmplitude, angularFrequency, period,
              time, position, velocity, animationFrameId, simulationActive,
              graphHistory, lastTime>>
envVars  == <<callbacks, nextHandle, clock, frameTime, renderQueued, frameQueue>>
histVars == <<lastOp, lastDelta, lastHandle, lastRemoved>>
vars     == <<progVars, envVars, histVars>>

----
\* Bounds of the model.

\* graphCanvas.width in pixels (the page's markup sets it).
graphCanvasWidth == 55
\* performance.now() when the script has run.
LoadTime == 5
\* The clock stops here.
MaxClock == 125
\* The browser hands out this many animation frame handles.
MaxHandle == 5

\* What the three range controls can report (parseFloat of their value); the
\* script puts no limit on it, and a range control's default minimum is 0.
MassValues == {0, 1}
SpringConstantValues == {0, 4}
InitialAmplitudeValues == {0, 1000}
\* How long the clock runs between two events (ms).
ElapseSteps == {20, 40}

----
\* Program constants.

graphScaleX == 50
graphOriginX == 50
\* 0.03, the frame time updatePhysics assumes, as AssumedDeltaNum / AssumedDeltaDen
AssumedDeltaNum == 3
AssumedDeltaDen == 100
\* Math.PI in thousandths
PiMilli == 3142
\* ms in a second; also the fixed-point scale
Milli == 1000
\* undefined (animationFrameId and animationLoop.lastTime before they are set)
Undefined == -1

----
\* JavaScript numbers.

Num(n) == [kind |-> "finite", val |-> n]
Inf(s) == [kind |-> "Infinity", val |-> s]
NaN == [kind |-> "NaN", val |-> 0]

IsFinite(x) == x.kind = "finite"
Sign(n) == IF n > 0 THEN 1 ELSE IF n < 0 THEN -1 ELSE 0
SignOf(x) == IF IsFinite(x) THEN Sign(x.val) ELSE x.val

\* a == b of two numbers: NaN equals nothing
NumEq(a, b) == a.kind # "NaN" /\ b.kind # "NaN" /\ a = b

\* if (x) / x || y on a number or undefined
Truthy(x) == x # Undefined /\ x # 0

\* springConstant / mass of two non-negative values, in thousandths
Ratio(k, m) ==
    IF m = 0
    THEN IF k = 0 THEN NaN ELSE Inf(Sign(k))
    ELSE Num((k * Milli) \div m)

RECURSIVE SqrtSearch(_, _, _)
SqrtSearch(n, lo, hi) ==
    IF lo >= hi THEN lo
    ELSE LET mid == (lo + hi + 1) \div 2
         IN IF mid * mid <= n THEN SqrtSearch(n, mid, hi)
                              ELSE SqrtSearch(n, lo, mid - 1)

\* Math.sqrt of a number in thousandths
Sqrt(x) ==
    IF x.kind = "NaN" THEN NaN
    ELSE IF x.kind = "Infinity" THEN (IF x.val > 0 THEN x ELSE NaN)
    ELSE IF x.val < 0 THEN NaN
    ELSE Num(SqrtSearch(x.val * Milli, 0, x.val + Milli))

\* (2 * Math.PI) / w, in ms for w in mrad/s
TwoPiOver(w) ==
    IF w.kind = "NaN" THEN NaN
    ELSE IF w.kind = "Infinity" THEN Num(0)
    ELSE IF w.val = 0 THEN Inf(1)
    ELSE Num((2 * PiMilli * Milli) \div w.val)

\* a * b
Mul(a, b) ==
    IF a.kind = "NaN" \/ b.kind = "NaN" THEN NaN
    ELSE IF IsFinite(a) /\ IsFinite(b) THEN Num((a.val * b.val) \div Milli)
    ELSE IF SignOf(a) = 0 \/ SignOf(b) = 0 THEN NaN
    ELSE Inf(SignOf(a) * SignOf(b))

\* -a
Neg(a) == IF a.kind = "NaN" THEN NaN ELSE [a EXCEPT !.val = -a.val]

\* cos of an angle in [0, pi/2], by its Taylor polynomial
CosQuadrant(r) ==
    LET r2 == (r * r) \div Milli
        r4 == (r2 * r2) \div Milli
        r6 == (r4 * r2) \div Milli
    IN Milli - r2 \div 2 + r4 \div 24 - r6 \div 720

CosMilli(a) ==
    LET r == a % (2 * PiMilli)
        h == IF r > PiMilli THEN 2 * PiMilli - r ELSE r
    IN IF 2 * h > PiMilli THEN -CosQuadrant(PiMilli - h) ELSE CosQuadrant(h)

\* sin of an angle in [0, pi/2], by its Taylor polynomial
SinQuadrant(r) ==
    LET r2 == (r * r) \div Milli
        r3 == (r2 * r) \div Milli
        r5 == (r3 * r2) \div Milli
        r7 == (r5 * r2) \div Milli
    IN r - r3 \div 6 + r5 \div 120 - r7 \div 5040

SinMilli(a) ==
    LET r == a % (2 * PiMilli)
        h == IF r > PiMilli THEN r - PiMilli ELSE r
        q == IF 2 * h > PiMilli THEN SinQuadrant(PiMilli - h) ELSE SinQuadrant(h)
    IN IF r > PiMilli THEN -q ELSE q

\* Math.cos, Math.sin
Cos(x) == IF IsFinite(x) THEN Num(CosMilli(x.val)) ELSE NaN
Sin(x) == IF IsFinite(x) THEN Num(SinMilli(x.val)) ELSE NaN

----
\* The program.

\* The drawable width of the plot: graphCanvas.width - graphOriginX
PlotWidth == graphCanvasWidth - graphOriginX

\* Mutant: the shift() is left out.
Evict_Never(h) == h

\* if (graphHistory.length * (graphScaleX * 0.03) > graphCanvas.width - graphOriginX)
\*     graphHistory.shift();
Evict(h) ==
    IF Len(h) * graphScaleX * AssumedDeltaNum > PlotWidth * AssumedDeltaDen
    THEN Tail(h)
    ELSE h

\* x(t) = A * cos(wt)
PositionAt(a, w, t) == Mul(Num(a), Cos(Mul(w, Num(t))))
\* v(t) = -A * w * sin(wt)
VelocityAt(a, w, t) == Mul(Mul(Neg(Num(a)), w), Sin(Mul(w, Num(t))))

updatePhysics(deltaTime) ==
    /\ time' = time + deltaTime
    /\ position' = PositionAt(initialAmplitude, angularFrequency, time')
    /\ velocity' = VelocityAt(initialAmplitude, angularFrequency, time')
    /\ graphHistory' =
           Evict(Append(graphHistory, [time |-> time', position |-> position']))

\* Mutant: the handle requestAnimationFrame returns is not kept.
requestAnimationFrame_HandleDropped ==
    /\ callbacks' = callbacks \cup {nextHandle}
    /\ animationFrameId' = animationFrameId
    /\ nextHandle' = nextHandle + 1

\* requestAnimationFrame(animationLoop): the handle is returned and assigned
requestAnimationFrame ==
    /\ callbacks' = callbacks \cup {nextHandle}
    /\ animationFrameId' = nextHandle
    /\ nextHandle' = nextHandle + 1

\* (currentTime - (animationLoop.lastTime || currentTime)) / 1000, in ms
DeltaTime(currentTime) ==
    currentTime - (IF Truthy(lastTime) THEN lastTime ELSE currentTime)

\* drawSimulation() and drawGraph() read the state and change none of it.
animationLoop(currentTime) ==
    /\ lastTime' = currentTime
    /\ IF simulationActive
       THEN /\ updatePhysics(DeltaTime(currentTime))
            /\ requestAnimationFrame
       ELSE UNCHANGED <<time, position, velocity, graphHistory,
                        callbacks, animationFrameId, nextHandle>>
    /\ UNCHANGED <<mass, springConstant, initialAmplitude, angularFrequency,
                   period, simulationActive>>

\* Mutant: no early return.
AlreadyRunning_Never == FALSE

\* if (simulationActive) return;
AlreadyRunning == simulationActive

startSimulation ==
    IF AlreadyRunning
    THEN UNCHANGED <<progVars, callbacks, nextHandle>>
    ELSE /\ simulationActive' = TRUE
         /\ lastTime' = clock
         /\ requestAnimationFrame
         /\ UNCHANGED <<mass, springConstant, initialAmplitude, angularFrequency,
                        period, time, position, velocity, graphHistory>>

\* Mutant: the pending frame is not cancelled.
CancelPending_Skipped == callbacks

\* if (animationFrameId) cancelAnimationFrame(animationFrameId);
CancelPending ==
    IF Truthy(animationFrameId) THEN callbacks \ {animationFrameId} ELSE callbacks

\* Mutant: graphHistory is not cleared.
resetSimulation_KeepsHistory ==
    /\ callbacks' = CancelPending
    /\ simulationActive' = FALSE
    /\ time' = 0
    /\ position' = Num(initialAmplitude')
    /\ velocity' = Num(0)
    /\ graphHistory' = graphHistory
    /\ UNCHANGED <<animationFrameId, lastTime, nextHandle>>

\* The body of resetSimulation; initialAmplitude' is the amplitude it reads.
resetSimulation ==
    /\ callbacks' = CancelPending
    /\ simulationActive' = FALSE
    /\ time' = 0
    /\ position' = Num(initialAmplitude')
    /\ velocity' = Num(0)
    /\ graphHistory' = <<>>
    /\ UNCHANGED <<animationFrameId, lastTime, nextHandle>>

updateParameters(m, k, a) ==
    /\ mass' = m
    /\ springConstant' = k
    /\ initialAmplitude' = a
    /\ angularFrequency' = Sqrt(Ratio(k, m))
    /\ period' = TwoPiOver(angularFrequency')
    /\ resetSimulation

----
\* The state when the script has run: the declarations, then updateParameters().
Init ==
    /\ mass \in MassValues
    /\ springConstant \in SpringConstantValues
    /\ initialAmplitude \in InitialAmplitudeValues
    /\ angularFrequency = Sqrt(Ratio(springConstant, mass))
    /\ period = TwoPiOver(angularFrequency)
    /\ time = 0
    /\ position = Num(initialAmplitude)
    /\ velocity = Num(0)
    /\ animationFrameId = Undefined
    /\ simulationActive = FALSE
    /\ graphHistory = <<>>
    /\ lastTime = Undefined
    /\ callbacks = {}
    /\ nextHandle = 1
    /\ clock = LoadTime
    /\ frameTime = 0
    /\ renderQueued = FALSE
    /\ frameQueue = {}
    /\ lastOp = "load"
    /\ lastDelta = 0
    /\ lastHandle = 0
    /\ lastRemoved = 0

\* An event handler runs only when no rendering task is calling callbacks.
HandlerMayRun == frameQueue = {}

\* input on the mass control
MassInput ==
    /\ HandlerMayRun
    /\ \E v \in MassValues : updateParameters(v, springConstant, initialAmplitude)
    /\ lastOp' = "mass"
    /\ lastDelta' = 0
    /\ lastHandle' = 0
    /\ lastRemoved' = Len(graphHistory) - Len(graphHistory')
    /\ UNCHANGED <<clock, frameTime, renderQueued, frameQueue>>

\* input on the spring constant control
SpringConstantInput ==
    /\ HandlerMayRun
    /\ \E v \in SpringConstantValues : updateParameters(mass, v, initialAmplitude)
    /\ lastOp' = "springConstant"
    /\ lastDelta' = 0
    /\ lastHandle' = 0
    /\ lastRemoved' = Len(graphHistory) - Len(graphHistory')
    /\ UNCHANGED <<clock, frameTime, renderQueued, frameQueue>>

\* input on the initial amplitude control
InitialAmplitudeInput ==
    /\ HandlerMayRun
    /\ \E v \in InitialAmplitudeValues : updateParameters(mass, springConstant, v)
    /\ lastOp' = "initialAmplitude"
    /\ lastDelta' = 0
    /\ lastHandle' = 0
    /\ lastRemoved' = Len(graphHistory) - Len(graphHistory')
    /\ UNCHANGED <<clock, frameTime, renderQueued, frameQueue>>

\* click on the start button
StartClick ==
    /\ HandlerMayRun
    /\ simulationActive \/ nextHandle <= MaxHandle
    /\ startSimulation
    /\ lastOp' = IF simulationActive THEN "startWhileRunning" ELSE "start"
    /\ lastDelta' = 0
    /\ lastHandle' = 0
    /\ lastRemoved' = 0
    /\ UNCHANGED <<clock, frameTime, renderQueued, frameQueue>>

\* click on the reset button
ResetClick ==
    /\ HandlerMayRun
    /\ UNCHANGED <<mass, springConstant, initialAmplitude, angularFrequency, period>>
    /\ resetSimulation
    /\ lastOp' = "reset"
    /\ lastDelta' = 0
    /\ lastHandle' = 0
    /\ lastRemoved' = Len(graphHistory) - Len(graphHistory')
    /\ UNCHANGED <<clock, frameTime, renderQueued, frameQueue>>

\* Time passes.
Elapse ==
    /\ HandlerMayRun
    /\ \E d \in ElapseSteps : clock + d <= MaxClock /\ clock' = clock + d
    /\ UNCHANGED <<progVars, callbacks, nextHandle, frameTime, renderQueued,
                   frameQueue, histVars>>

\* The browser finds a rendering opportunity: it notes the time and queues the
\* rendering task.  Event handlers already queued run before that task.
RenderingOpportunity ==
    /\ ~renderQueued
    /\ HandlerMayRun
    /\ clock > frameTime
    /\ frameTime' = clock
    /\ renderQueued' = TRUE
    /\ UNCHANGED <<progVars, callbacks, nextHandle, clock, frameQueue, histVars>>

\* The rendering task starts: it takes the callbacks registered so far.
UpdateTheRendering ==
    /\ renderQueued
    /\ renderQueued' = FALSE
    /\ frameQueue' = callbacks
    /\ callbacks' = {}
    /\ UNCHANGED <<progVars, nextHandle, clock, frameTime, histVars>>

Min(S) == CHOOSE x \in S : \A y \in S : x <= y

\* The rendering task calls the next callback it took, with the time of the
\* rendering opportunity.
FrameCallback ==
    /\ frameQueue # {}
    /\ nextHandle <= MaxHandle
    /\ LET h == Min(frameQueue) IN
         /\ frameQueue' = frameQueue \ {h}
         /\ lastHandle' = h
    /\ animationLoop(frameTime)
    /\ lastOp' = IF lastOp = "start" THEN "firstTick" ELSE "tick"
    /\ lastDelta' = DeltaTime(frameTime)
    /\ lastRemoved' = Len(graphHistory) + 1 - Len(graphHistory')
    /\ UNCHANGED <<clock, frameTime, renderQueued>>

Next ==
    \/ MassInput
    \/ SpringConstantInput
    \/ InitialAmplitudeInput
    \/ StartClick
    \/ ResetClick
    \/ Elapse
    \/ RenderingOpportunity
    \/ UpdateTheRendering
    \/ FrameCallback

Spec == Init /\ [][Next]_vars

----
\* Properties.

\* The callbacks requested and not called yet.
Outstanding == callbacks \cup frameQueue

\* The handlers that end with resetSimulation() (the script's own call included).
ResetOps == {"load", "reset", "mass", "springConstant", "initialAmplitude"}
TickOps == {"firstTick", "tick"}

\* A step in which the rendering task calls animationLoop.
IsTickStep == frameQueue # {} /\ frameQueue' # frameQueue

\* The controls report a positive mass and a positive spring constant.
ValidParameters == mass > 0 /\ springConstant > 0

\* C1: when resetSimulation() has returned (reset button, a parameter change, or
\* the script's first updateParameters()), time is 0, position is the current
\* initialAmplitude, velocity is 0, graphHistory is empty and the controller is Idle.
C1_AfterReset ==
    lastOp \in ResetOps =>
        /\ time = 0
        /\ NumEq(position, Num(initialAmplitude))
        /\ NumEq(velocity, Num(0))
        /\ graphHistory = <<>>
        /\ ~simulationActive

\* A parameter change that reset a run of at least two ticks.
C1_Witness ==
    /\ lastOp = "initialAmplitude"
    /\ initialAmplitude = 1000
    /\ lastRemoved >= 2

\* C2: startSimulation() called while Running changes nothing: not the program's
\* variables (animationLoop.lastTime and animationFrameId among them), not the
\* callbacks outstanding.
C2_StartWhileRunningNoOp ==
    [][(lastOp # "startWhileRunning" /\ lastOp' = "startWhileRunning") =>
           UNCHANGED <<progVars, callbacks, frameQueue, nextHandle>>]_vars

\* The start button was clicked during a run that has ticked.
C2_Witness ==
    /\ lastOp = "startWhileRunning"
    /\ simulationActive
    /\ graphHistory # <<>>

\* C3: at most one animationLoop callback is outstanding; exactly one while
\* Running, none while Idle.
C3_OneOutstanding ==
    /\ Cardinality(Outstanding) <= 1
    /\ simulationActive => Cardinality(Outstanding) = 1
    /\ ~simulationActive => Outstanding = {}

\* Running again after a reset, between two ticks.
C3_Witness ==
    /\ simulationActive
    /\ lastOp = "tick"
    /\ frameQueue = {}
    /\ callbacks = {animationFrameId}
    /\ animationFrameId >= 4

\* C4: while Idle (before the first start, and from a reset to the next start)
\* nothing advances time, appends to graphHistory or requests a frame; and every
\* animationLoop call runs while Running, for the handle requested last, so never
\* for a handle that a reset cancelled.
C4_NoTickWhileIdle ==
    [][/\ (~simulationActive /\ lastOp' # "start") =>
              /\ time' = 0
              /\ graphHistory' = <<>>
              /\ Outstanding' = {}
              /\ nextHandle' = nextHandle
       /\ IsTickStep => simulationActive /\ lastHandle' = animationFrameId
      ]_vars

\* A run started after a reset has ticked, from a start clicked while the
\* rendering task of the cancelled frame was already queued.
C4_Witness ==
    /\ lastOp = "firstTick"
    /\ lastHandle >= 2
    /\ lastDelta < 0

\* C5: after every tick the shown span of graphHistory,
\* (newest.time - oldest.time) * graphScaleX, is at most the plot's drawable
\* width, and the samples are in time order.  (Stated of the states with valid
\* parameters, which the history does not depend on.)
C5_SpanWithinPlot ==
    (ValidParameters /\ graphHistory # <<>>) =>
        /\ (graphHistory[Len(graphHistory)].time - graphHistory[1].time) * graphScaleX
               <= PlotWidth * Milli
        /\ \A i, j \in 1..Len(graphHistory) :
               i < j => graphHistory[i].time <= graphHistory[j].time

\* C6: mass and springConstant are positive and angularFrequency and period are
\* finite in every state.
C6_ParametersValid ==
    /\ mass > 0
    /\ springConstant > 0
    /\ IsFinite(angularFrequency)
    /\ IsFinite(period)

\* C7: between handlers position and velocity are the closed form of the current
\* parameters at the current time.
C7_ClosedForm ==
    /\ NumEq(position, PositionAt(initialAmplitude, angularFrequency, time))
    /\ NumEq(velocity, VelocityAt(initialAmplitude, angularFrequency, time))

\* C8: the first tick after startSimulation() has deltaTime 0: time is still 0
\* and graphHistory holds the one sample (0, initialAmplitude).  (Stated of the
\* states with valid parameters.)
C8_FirstTickZero ==
    (ValidParameters /\ lastOp = "firstTick") =>
        /\ lastDelta = 0
        /\ time = 0
        /\ graphHistory = <<[time |-> 0, position |-> Num(initialAmplitude)]>>

\* C9: time is never negative, graphHistory is in time order, and after a tick
\* its last sample is the current (time, position).  (Stated of the states with
\* valid parameters.)
C9_TimeOrdered ==
    ValidParameters =>
    /\ time >= 0
    /\ \A i, j \in 1..Len(graphHistory) :
           i < j => graphHistory[i].time <= graphHistory[j].time
    /\ lastOp \in TickOps =>
           /\ graphHistory # <<>>
           /\ graphHistory[Len(graphHistory)] = [time |-> time, position |-> position]

\* C10: graphHistory.length * (graphScaleX * 0.03) never exceeds the plot's
\* drawable width (or the buffer is empty); a tick appends one sample and removes
\* at most the oldest; nothing else removes a sample but the clear of a reset.
C10_LengthBounded ==
    /\ [](\/ graphHistory = <<>>
          \/ Len(graphHistory) * graphScaleX * AssumedDeltaNum
                 <= PlotWidth * AssumedDeltaDen)
    /\ [][IF IsTickStep
          THEN LET pushed == Append(graphHistory,
                                    [time |-> time', position |-> position'])
               IN graphHistory' \in {pushed, Tail(pushed)}
          ELSE \/ graphHistory' = graphHistory
               \/ graphHistory' = <<>> /\ lastOp' \in ResetOps
         ]_vars

\* A tick that removed the oldest sample.
C10_Witness ==
    /\ lastOp = "tick"
    /\ lastRemoved = 1
    /\ Len(graphHistory) >= 2

\* With a finite angular frequency the closed form does hold between handlers.
ClosedFormWhenFinite == IsFinite(angularFrequency) => C7_ClosedForm

====
